---------------------------- MODULE Spec2Model ----------------------------
(***************************************************************************)
(* Motion detector (src/src/detector.py) and its web wrapper               *)
(* (src/web/app.py): the ROI store, the per-ROI smoothing window, the rain *)
(* gate and the frame pipeline.                                            *)
(*                                                                         *)
(* A frame is represented by what the pipeline extracts from it: the       *)
(* number of small contours of the full foreground mask and, for each ROI  *)
(* rectangle, the areas of the external contours found in the crop.        *)
(***************************************************************************)
EXTENDS Integers, Sequences, FiniteSets, TLC

VARIABLES
    config,                 \* MotionDetector.config (a DetectorConfig)
    rois,                   \* MotionDetector.rois: list of ROI dicts
    motion_history,         \* MotionDetector.motion_history: dict id -> list of bool
    rain_detection_active,  \* MotionDetector.rain_detection_active
    bg_nframes,             \* frames absorbed by background_subtractor.apply
    file,                   \* the ROI file at config.roi_config_file
    now,                    \* the clock read by time.time()
    frame,                  \* the frame handed to the running / last process_frame
    result,                 \* the dict returned by the last process_frame
    last,                   \* the last completed call and what it returned
    fed,                    \* per history entry: the raw decisions appended to it (newest 3)
    pc,                     \* camera thread: position inside process_frame
    it,                     \* camera thread: next index of the `for roi in self.rois` iterator
    cur,                    \* camera thread: position in rois of the dict bound to `roi` (0: no longer in the list)
    loc,                    \* camera thread: locals of process_frame / detect_motion_in_rois
    npass,                  \* passes the camera thread has begun
    nreq,                   \* ROI requests the HTTP threads have served
    motion_log,             \* ids in the "Motion in ROI" lines the last call logged (in the threaded application: the running pass)
    web,                    \* the web application: HTTP handler threads, WebDetector's camera fields, the bytes on disk
    sleep_prevention,       \* a SleepPrevention object, its caller and its keep-awake loop threads
    person,                 \* the PersonDetector of main.py (the legacy notifier)
    twin                    \* a second MotionDetector: its rois, motion_history, rain flag, background model

detvars == <<config, rois, motion_history, rain_detection_active, bg_nframes, file,
             now, frame, result, last, fed, pc, it, cur, loc, npass, nreq, motion_log, web,
             sleep_prevention, person>>

vars == <<detvars, twin>>

camvars == <<pc, it, cur, loc, npass>>

---------------------------------------------------------------------------
\* Bounds of the model.

\* add_roi is not explored once the next id would exceed MaxId
MaxId == 5
\* bg_nframes stops counting at MaxBgFrames
MaxBgFrames == 2
\* passes of the camera thread explored when HTTP threads run beside it
MaxPasses == 3
\* ROI requests explored when HTTP threads run beside the camera thread
MaxRequests == 3
\* largest motion_smoothing_frames a detector is constructed with
MaxWindow == 4
\* ROIs added in the specifications that explore something other than the store
MaxFewRois == 1
\* ROIs added to the store that is saved and loaded again
MaxSavedRois == 2
\* the clock is not advanced past MaxTime
MaxTime == 3
\* calls of SleepPrevention.start() and stop() explored
MaxSleepCalls == 5
\* ROIs selected in the PersonDetector of main.py
MaxLegacyRois == 2

---------------------------------------------------------------------------
\* Configuration and inputs.

DetectorConfig ==
    [motion_threshold        |-> 800,
     min_contour_area        |-> 1500,
     max_small_contours      |-> 50,
     motion_smoothing_frames |-> 3,
     max_rois                |-> 4]

\* ROI rectangles (x1, y1, x2, y2) the user draws, inside the frame.
Rects == { <<0, 0, 100, 100>>, <<200, 200, 300, 300>> }

\* The rectangle monitored in the runs that process frames.
Coords == { <<0, 0, 100, 100>> }

\* Contour areas of one crop: nothing, or one contour of the given area.
CropContours == { <<>>, <<DetectorConfig.min_contour_area>> }

\* Small-contour counts of the full mask: at the rain limit, and one above it.
SmallCounts == { DetectorConfig.max_small_contours, DetectorConfig.max_small_contours + 1 }

Frames == [small : SmallCounts, crop : [Coords -> CropContours]]

NoFrame == [small |-> 0, crop |-> [c \in Coords |-> <<>>]]

\* what cap.read() or a caller can hand over in place of an image: None, or an
\* array with no pixels
MalformedFrames == { [kind |-> k] : k \in {"missing", "empty"} }

NoFile == [exists |-> FALSE, content |-> <<>>]

\* An HTTP handler thread that serves no request.
IdleHandler == [pc |-> "idle", c |-> <<>>, roi_id |-> 0, buf |-> <<>>]

\* The HTTP handler threads (socketio runs with async_mode='threading').
Handlers == {1, 2}

\* WebDetector.__init__: camera_active = False, camera_thread = None.  loops
\* are the _camera_loop threads started so far, writer is the thread that
\* assigned camera_active last (0: a request), disk tells whether the bytes
\* of the ROI file are the JSON text of file.content ("json"), nothing
\* ("empty") or a text json.load rejects ("torn"), save_failed whether some
\* save_rois call returned False.
NoWeb ==
    [thr           |-> [t \in Handlers |-> IdleHandler],
     disk          |-> "json",
     save_failed   |-> FALSE,
     camera_active |-> FALSE,
     camera_thread |-> 0,
     loops         |-> <<>>,
     writer        |-> 0]

\* SleepPrevention.__init__: active = False, thread = None.  loops are the
\* _prevent_sleep_loop threads started so far, caller tells where the thread
\* that calls start() and stop() is, calls counts its calls.
NoSleepPrevention ==
    [active |-> FALSE, thread |-> 0, loops |-> <<>>, caller |-> "idle", calls |-> 0]

\* PersonDetector.__init__.  logged and notified describe the last
\* process_frame call: the ROI indexes log_motion_detection was called with,
\* and what the calls of notify_motion_detected returned.
NoPerson ==
    [rois                       |-> <<>>,
     last_notification_time     |-> 0,
     detection_count            |-> 0,
     background_learning_frames |-> 0,
     person_detected            |-> FALSE,
     logged                     |-> <<>>,
     notified                   |-> <<>>]

NoTwin == [rois |-> <<>>, hist |-> <<>>, fed |-> <<>>, rain |-> FALSE, bg |-> 0]

NoLocals == [rain_active |-> FALSE, active_rois |-> 0, any |-> FALSE,
             roi_id |-> 0, coords |-> <<0, 0, 0, 0>>, total_area |-> 0]

---------------------------------------------------------------------------
\* Helpers.

Range(s) == { s[i] : i \in 1..Len(s) }

RECURSIVE SumSeq(_)
SumSeq(s) == IF s = <<>> THEN 0 ELSE Head(s) + SumSeq(Tail(s))

RECURSIVE CountTrue(_)
CountTrue(s) == IF s = <<>> THEN 0 ELSE (IF Head(s) THEN 1 ELSE 0) + CountTrue(Tail(s))

\* max(S, default=0)
SetMax(S) == IF S = {} THEN 0 ELSE CHOOSE y \in S : \A z \in S : z <= y

RemoveAt(s, i) == SubSeq(s, 1, i - 1) \o SubSeq(s, i + 1, Len(s))

\* the history entry of a deleted ROI is left behind
DropKeyKept(h, k) == h

DropKey(h, k) == [x \in DOMAIN h \ {k} |-> h[x]]

RoiIds(rs) == [i \in 1..Len(rs) |-> rs[i].id]

\* len([roi for roi in self.rois if roi.get('motion_detected', False)])
ActiveCount(rs) == Cardinality({ i \in 1..Len(rs) : rs[i].motion_detected })

---------------------------------------------------------------------------
\* The pipeline's pure steps (detect_motion_in_rois).

\* len(small_contours) > self.config.max_small_contours
RainActive(f, cfg) == f.small > cfg.max_small_contours

\* large_contours = [c for c in contours if contourArea(c) >= min_contour_area]
LargeContours(contours, cfg) == SelectSeq(contours, LAMBDA a : a >= cfg.min_contour_area)

\* total_area = sum(contourArea(c) for c in large_contours)
TotalArea(contours, cfg) == SumSeq(LargeContours(contours, cfg))

\* >= in place of >
RawMotionAtLeast(total_area, cfg) == total_area >= cfg.motion_threshold

\* total_area > self.config.motion_threshold
RawMotion(total_area, cfg) == total_area > cfg.motion_threshold

\* if roi_id not in self.motion_history: self.motion_history[roi_id] = []
HistInit(h, id) == IF id \in DOMAIN h THEN h ELSE h @@ (id :> <<>>)

\* the append is skipped
HistAppendSkipped(h, id, raw) == h

\* self.motion_history[roi_id].append(raw)
HistAppend(h, id, raw) == [h EXCEPT ![id] = Append(@, raw)]

\* pop() in place of pop(0): the newest entry is dropped
HistTrimNewest(h, id, cfg) ==
    IF Len(h[id]) > cfg.motion_smoothing_frames
    THEN [h EXCEPT ![id] = SubSeq(@, 1, Len(@) - 1)] ELSE h

\* if len(self.motion_history[roi_id]) > motion_smoothing_frames: pop(0)
HistTrim(h, id, cfg) ==
    IF Len(h[id]) > cfg.motion_smoothing_frames THEN [h EXCEPT ![id] = Tail(@)] ELSE h

\* one true entry is enough
ConsistentMotionAny(w, cfg) ==
    Len(w) >= cfg.motion_smoothing_frames /\ CountTrue(w) >= 1

\* len(history) >= motion_smoothing_frames and sum(history) >= 2
ConsistentMotion(w, cfg) ==
    Len(w) >= cfg.motion_smoothing_frames /\ CountTrue(w) >= 2

\* the rain gate left out
MotionDecisionNoGate(consistent, rain) == consistent

\* motion_detected = consistent_motion and not self.rain_detection_active
MotionDecision(consistent, rain) == consistent /\ ~rain

\* motion_detected_any = motion_detected: the flag of the last ROI only
AnyMotionLast(any, md) == md

\* if motion_detected: motion_detected_any = True
AnyMotion(any, md) == any \/ md

\* the time is stored on every pass, motion or not
MarkRoiStamped(roi, md, t) ==
    [roi EXCEPT !.motion_detected = md,
                !.last_motion_time = <<t>>]

\* roi['motion_detected'] = motion_detected; on motion, roi['last_motion_time'] = time.time()
MarkRoi(roi, md, t) ==
    [roi EXCEPT !.motion_detected = md,
                !.last_motion_time = IF md THEN <<t>> ELSE @]

\* The raw decisions appended to a history entry since the entry was created
\* (the newest three of them): started with the entry, extended with each append.
FedInit(g, id, fresh) ==
    IF fresh \/ id \notin DOMAIN g
    THEN [x \in DOMAIN g \cup {id} |-> IF x = id THEN <<>> ELSE g[x]]
    ELSE g

FedAppend(g, id, raw) ==
    LET all == Append(g[id], raw)
    IN  [g EXCEPT ![id] = IF Len(all) > 3 THEN Tail(all) ELSE all]

\* if motion_detected: ... logger.info(f"[{timestamp}] Motion in ROI {roi_id} ...")
LogMotion(log, id, md) == IF md THEN Append(log, id) ELSE log

\* One iteration of `for roi in self.rois` (lines 251-288) on the i-th ROI.
ScoreRoi(st, i, f, rain, cfg, t) ==
    LET roi   == st.rois[i]
        fresh == roi.id \notin DOMAIN st.hist
        area  == TotalArea(f.crop[roi.coords], cfg)
        raw   == RawMotion(area, cfg)
        h     == HistTrim(HistAppend(HistInit(st.hist, roi.id), roi.id, raw), roi.id, cfg)
        md    == MotionDecision(ConsistentMotion(h[roi.id], cfg), rain)
    IN  [rois |-> [st.rois EXCEPT ![i] = MarkRoi(roi, md, t)],
         hist |-> h,
         fed  |-> FedAppend(FedInit(st.fed, roi.id, fresh), roi.id, raw),
         any  |-> AnyMotion(st.any, md),
         log  |-> LogMotion(st.log, roi.id, md)]

\* The whole loop, from the i-th ROI on.
RECURSIVE ScanRois(_, _, _, _, _, _)
ScanRois(st, i, f, rain, cfg, t) ==
    IF i > Len(st.rois) THEN st
    ELSE ScanRois(ScoreRoi(st, i, f, rain, cfg, t), i + 1, f, rain, cfg, t)

\* background_subtractor.apply(gray_frame): one more frame absorbed
BgApply(n) == IF n < MaxBgFrames THEN n + 1 ELSE n

---------------------------------------------------------------------------
\* The ROI store's pure steps.

\* > in place of >=
AtCapacityOffByOne(rs, cfg) == Len(rs) > cfg.max_rois

\* len(self.rois) >= self.config.max_rois
AtCapacity(rs, cfg) == Len(rs) >= cfg.max_rois

\* len(self.rois) + 1 in place of max(...) + 1
NextRoiIdByCount(rs) == Len(rs) + 1

\* max([roi['id'] for roi in self.rois], default=0) + 1
NextRoiId(rs) == SetMax(Range(RoiIds(rs))) + 1

NewRoi(id, c) ==
    [id |-> id, coords |-> c, motion_detected |-> FALSE, last_motion_time |-> <<>>]

\* index of the first ROI with the id, 0 when there is none
FindRoi(rs, id) ==
    IF \E i \in 1..Len(rs) : rs[i].id = id
    THEN CHOOSE i \in 1..Len(rs) : rs[i].id = id /\ \A j \in 1..(i - 1) : rs[j].id # id
    ELSE 0

\* json.dump(self.rois, f, indent=2) and json.load(f).  The text is modelled by
\* its tokens: a list of objects, each the member name / value pairs in the
\* dict's insertion order; integers are written as digits, booleans as true /
\* false, None as null, a float as a number.

JsonOfTime(x) == IF x = <<>> THEN <<"null">> ELSE <<"number", x[1]>>

JsonOfRoi(r) ==
    << <<"id", r.id>>,
       <<"coords", r.coords>>,
       <<"motion_detected", IF r.motion_detected THEN "true" ELSE "false">>,
       <<"last_motion_time", JsonOfTime(r.last_motion_time)>> >>

JsonDump(rs) == [i \in 1..Len(rs) |-> JsonOfRoi(rs[i])]

\* value of a member of a parsed object (the last pair with the name wins)
JsonMember(obj, name) ==
    obj[CHOOSE i \in 1..Len(obj) :
            obj[i][1] = name /\ \A j \in (i + 1)..Len(obj) : obj[j][1] # name][2]

TimeOfJson(v) == IF v = <<"null">> THEN <<>> ELSE <<v[2]>>

RoiOfJson(obj) ==
    [id               |-> JsonMember(obj, "id"),
     coords           |-> JsonMember(obj, "coords"),
     motion_detected  |-> JsonMember(obj, "motion_detected") = "true",
     last_motion_time |-> TimeOfJson(JsonMember(obj, "last_motion_time"))]

\* the parsed list comes back last object first
JsonLoadReversed(text) == [i \in 1..Len(text) |-> RoiOfJson(text[Len(text) + 1 - i])]

JsonLoad(text) == [i \in 1..Len(text) |-> RoiOfJson(text[i])]

\* del self.rois[i] seen from the camera thread's reference to a ROI dict at position c
AfterDelete(c, i) == IF c = i THEN 0 ELSE IF c > i THEN c - 1 ELSE c

---------------------------------------------------------------------------
\* Construction (MotionDetector.__init__), with the ROI file found on disk.

InitCfg(cfg, f) ==
    /\ config = cfg
    /\ file = f
    /\ rois = IF f.exists THEN JsonLoad(f.content) ELSE <<>>
    /\ motion_history = <<>>
    /\ rain_detection_active = FALSE
    /\ bg_nframes = 0
    /\ now = 0
    /\ frame = NoFrame
    /\ result = [motion_detected |-> FALSE, rain_active |-> FALSE, active_rois |-> 0]
    /\ last = [op |-> "init", ret |-> f.exists]
    /\ fed = <<>>
    /\ pc = "idle"
    /\ it = 0
    /\ cur = 0
    /\ loc = NoLocals
    /\ npass = 0
    /\ nreq = 0
    /\ twin = NoTwin
    /\ motion_log = <<>>
    /\ web = NoWeb
    /\ sleep_prevention = NoSleepPrevention
    /\ person = NoPerson

InitWith(f) == InitCfg(DetectorConfig, f)

Init == InitWith(NoFile)

---------------------------------------------------------------------------
\* The ROI store's operations.

AddRoiCall(c) ==
    /\ IF AtCapacity(rois, config)
       THEN /\ last' = [op |-> "add", ret |-> FALSE]
            /\ UNCHANGED rois
       ELSE /\ NextRoiId(rois) <= MaxId
            /\ rois' = Append(rois, NewRoi(NextRoiId(rois), c))
            /\ last' = [op |-> "add", ret |-> TRUE]
    /\ UNCHANGED <<config, twin, sleep_prevention, person, motion_history, rain_detection_active, bg_nframes,
                   now, frame, result, fed, camvars>>

AddRoi(c) == AddRoiCall(c) /\ motion_log' = <<>> /\ UNCHANGED <<file, nreq, web>>

DeleteRoiCall(id) ==
    /\ LET i == FindRoi(rois, id) IN
       IF i = 0
       THEN /\ last' = [op |-> "delete", ret |-> FALSE]
            /\ UNCHANGED <<rois, motion_history, fed, cur>>
       ELSE /\ rois' = RemoveAt(rois, i)
            /\ motion_history' = DropKey(motion_history, id)
            /\ fed' = DropKey(fed, id)
            /\ cur' = AfterDelete(cur, i)
            /\ last' = [op |-> "delete", ret |-> TRUE]
    /\ UNCHANGED <<config, twin, sleep_prevention, person, rain_detection_active, bg_nframes, now, frame,
                   result, pc, it, loc, npass>>

DeleteRoi(id) == DeleteRoiCall(id) /\ motion_log' = <<>> /\ UNCHANGED <<file, nreq, web>>

\* self.motion_history.clear() left out
ClearRoisCallKeepsHistory ==
    /\ rois' = <<>>
    /\ fed' = <<>>
    /\ cur' = 0
    /\ last' = [op |-> "clear", ret |-> TRUE]
    /\ UNCHANGED <<config, twin, sleep_prevention, person, motion_history, rain_detection_active, bg_nframes, now,
                   frame, result, pc, it, loc, npass>>

ClearRoisCall ==
    /\ rois' = <<>>
    /\ motion_history' = <<>>
    /\ fed' = <<>>
    /\ cur' = 0
    /\ last' = [op |-> "clear", ret |-> TRUE]
    /\ UNCHANGED <<config, twin, sleep_prevention, person, rain_detection_active, bg_nframes, now, frame,
                   result, pc, it, loc, npass>>

ClearRois == ClearRoisCall /\ motion_log' = <<>> /\ UNCHANGED <<file, nreq, web>>

\* ok: whether the directory and the file can be written
SaveRois(ok) ==
    /\ IF ok
       THEN /\ file' = [exists |-> TRUE, content |-> JsonDump(rois)]
            /\ last' = [op |-> "save", ret |-> TRUE]
       ELSE /\ last' = [op |-> "save", ret |-> FALSE]
            /\ UNCHANGED file
    /\ motion_log' = <<>>
    /\ UNCHANGED <<config, twin, sleep_prevention, person, rois, motion_history, rain_detection_active, bg_nframes,
                   now, frame, result, fed, camvars, nreq, web>>

\* the assignment to self.rois happens before the file is read
LoadRoisClobber(ok) ==
    /\ IF file.exists /\ ok
       THEN /\ rois' = JsonLoad(file.content)
            /\ last' = [op |-> "load", ret |-> TRUE]
       ELSE /\ last' = [op |-> "load", ret |-> FALSE]
            /\ rois' = <<>>
    /\ motion_log' = <<>>
    /\ UNCHANGED <<config, twin, sleep_prevention, person, motion_history, rain_detection_active, bg_nframes, file,
                   now, frame, result, fed, camvars, nreq, web>>

\* ok: whether the file, when present, can be read and parsed
LoadRois(ok) ==
    /\ IF file.exists /\ ok
       THEN /\ rois' = JsonLoad(file.content)
            /\ last' = [op |-> "load", ret |-> TRUE]
       ELSE /\ last' = [op |-> "load", ret |-> FALSE]
            /\ UNCHANGED rois
    /\ motion_log' = <<>>
    /\ UNCHANGED <<config, twin, sleep_prevention, person, motion_history, rain_detection_active, bg_nframes, file,
                   now, frame, result, fed, camvars, nreq, web>>

\* A fresh detector over the file on disk (api_initialize, or a new process):
\* MotionDetector.__init__ with its load_rois.  ok: whether the file, when
\* present, can be read and parsed.
Restart(ok) ==
    /\ pc = "idle"
    /\ config' = DetectorConfig
    /\ rois' = IF file.exists /\ ok THEN JsonLoad(file.content) ELSE <<>>
    /\ motion_history' = <<>>
    /\ rain_detection_active' = FALSE
    /\ bg_nframes' = 0
    /\ frame' = NoFrame
    /\ result' = [motion_detected |-> FALSE, rain_active |-> FALSE, active_rois |-> 0]
    /\ last' = [op |-> "init", ret |-> file.exists /\ ok]
    /\ fed' = <<>>
    /\ motion_log' = <<>>
    /\ UNCHANGED <<file, now, camvars, nreq, web, sleep_prevention, person, twin>>

\* POST /api/config/motion (api_motion_config): each of the three thresholds
\* present in the request body is assigned to the running detector's config.
\* A value equal to the current one stands for a member left out.
ApiMotionConfig(mt, mca, msc) ==
    /\ config' = [config EXCEPT !.motion_threshold = mt,
                                !.min_contour_area = mca,
                                !.max_small_contours = msc]
    /\ last' = [op |-> "config", ret |-> TRUE]
    /\ motion_log' = <<>>
    /\ UNCHANGED <<twin, sleep_prevention, person, rois, motion_history, rain_detection_active,
                   bg_nframes, file, now, frame, result, fed, camvars, nreq, web>>

---------------------------------------------------------------------------
\* process_frame run to completion.

ProcessFrameCall(f) ==
    /\ pc = "idle"
    /\ frame' = f
    /\ IF rois = <<>>
       THEN /\ result' = [motion_detected |-> FALSE,
                          rain_active     |-> rain_detection_active,
                          active_rois     |-> ActiveCount(rois)]
            /\ last' = [op |-> "process", ret |-> FALSE]
            /\ motion_log' = <<>>
            /\ UNCHANGED <<rois, motion_history, rain_detection_active, bg_nframes, fed>>
       ELSE LET rain == RainActive(f, config)
                st   == ScanRois([rois |-> rois, hist |-> motion_history,
                                  fed |-> fed, any |-> FALSE, log |-> <<>>],
                                 1, f, rain, config, now)
            IN  /\ bg_nframes' = BgApply(bg_nframes)
                /\ rain_detection_active' = rain
                /\ rois' = st.rois
                /\ motion_history' = st.hist
                /\ fed' = st.fed
                /\ motion_log' = st.log
                /\ result' = [motion_detected |-> st.any,
                              rain_active     |-> rain_detection_active,
                              active_rois     |-> ActiveCount(rois)]
                /\ last' = [op |-> "process", ret |-> st.any]
    /\ UNCHANGED <<config, file, now, camvars, nreq, web, sleep_prevention, person>>

ProcessFrame(f) == ProcessFrameCall(f) /\ UNCHANGED twin

\* process_frame on a frame that is None or has no pixels.  With ROIs in the
\* store, line 230 raises before any state is touched (frame.shape on None,
\* cv2.cvtColor / cv2.GaussianBlur on an empty array) and nothing between
\* lines 224 and 304 catches it.  With an empty store the frame is never read.
ProcessMalformed(f) ==
    /\ pc = "idle"
    /\ frame' = f
    /\ IF rois = <<>>
       THEN /\ result' = [motion_detected |-> FALSE,
                          rain_active     |-> rain_detection_active,
                          active_rois     |-> ActiveCount(rois)]
            /\ last' = [op |-> "process", ret |-> FALSE]
       ELSE /\ last' = [op |-> "process_raised", ret |-> FALSE]
            /\ UNCHANGED result
    /\ motion_log' = <<>>
    /\ UNCHANGED <<config, twin, sleep_prevention, person, rois, motion_history, rain_detection_active, bg_nframes,
                   file, now, fed, camvars, nreq, web>>

---------------------------------------------------------------------------
\* Single-threaded use of the detector: every call runs to completion.

Next ==
    \/ \E c \in Coords : AddRoi(c)
    \/ \E id \in 1..MaxId : DeleteRoi(id)
    \/ ClearRois
    \/ \E f \in Frames : ProcessFrame(f)

Spec == Init /\ [][Next]_vars

---------------------------------------------------------------------------
\* Single-threaded use of the ROI store and its file, no frame processed.

StoreNext ==
    \/ \E c \in Rects : AddRoi(c)
    \/ \E id \in 1..MaxId : DeleteRoi(id)
    \/ ClearRois
    \/ \E ok \in BOOLEAN : SaveRois(ok)
    \/ \E ok \in BOOLEAN : LoadRois(ok)

SpecStore == Init /\ [][StoreNext]_vars

---------------------------------------------------------------------------
\* A detector constructed over a ROI file somebody else wrote: any well-formed
\* list of up to max_rois + 1 records.

FileOf(k) ==
    [exists |-> TRUE, content |-> JsonDump([i \in 1..k |-> NewRoi(i, <<0, 0, 100, 100>>)])]

WellFormedFiles == {NoFile} \cup { FileOf(k) : k \in 0..(DetectorConfig.max_rois + 1) }

InitFile == \E f \in WellFormedFiles : InitWith(f)

FileNext ==
    \/ \E c \in Rects : AddRoi(c)
    \/ \E id \in 1..MaxId : DeleteRoi(id)
    \/ ClearRois
    \/ \E ok \in BOOLEAN : LoadRois(ok)

SpecFile == InitFile /\ [][FileNext]_vars

---------------------------------------------------------------------------
\* Detectors constructed with a DetectorConfig whose motion_smoothing_frames
\* was set to some N >= 1 before construction.

WindowConfigs ==
    { [DetectorConfig EXCEPT !.motion_smoothing_frames = n] : n \in 1..MaxWindow }

InitWindow == \E cfg \in WindowConfigs : InitCfg(cfg, NoFile)

WindowNext ==
    \/ \E c \in Coords : Len(rois) < MaxFewRois /\ AddRoi(c)
    \/ ClearRois
    \/ \E f \in Frames : ProcessFrame(f)

SpecWindow == InitWindow /\ [][WindowNext]_vars

---------------------------------------------------------------------------
\* A detector that is also handed malformed frames.

MalformedNext ==
    \/ \E c \in Coords : Len(rois) < MaxFewRois /\ AddRoi(c)
    \/ ClearRois
    \/ \E f \in Frames : ProcessFrame(f)
    \/ \E f \in MalformedFrames : ProcessMalformed(f)

SpecMalformed == Init /\ [][MalformedNext]_vars

---------------------------------------------------------------------------
\* Frames with geometry: the foreground mask holds at most one filled
\* rectangle (a blob), and an ROI's crop is cut from the mask by the slice
\* fg_mask[y1:y2, x1:x2] of line 260.

\* width and height of the frames the camera delivers
FrameSize == <<640, 480>>

\* ROI rectangles <<x1, y1, x2, y2>>: inside the frame, past its far edges,
\* before its near edges, and straddling either
WideRects ==
    { <<0, 0, 100, 100>>, <<700, 500, 800, 600>>, <<-100, -100, -10, -10>>,
      <<600, 440, 700, 540>>, <<-50, -50, 50, 50>> }

\* foreground blobs <<x1, y1, x2, y2>> (<<>>: none): the top left and the
\* bottom right corner of the frame
Blobs == { <<>>, <<0, 0, 100, 100>>, <<540, 380, 640, 480>> }

\* a slice bound a on an axis of length n: negative bounds count from the far
\* end, and the result is clipped to 0..n
PyIndex(a, n) ==
    IF a < 0 THEN (IF a + n < 0 THEN 0 ELSE a + n) ELSE (IF a > n THEN n ELSE a)

\* number of positions shared by the ranges lo1..hi1-1 and lo2..hi2-1
Overlap(lo1, hi1, lo2, hi2) ==
    LET lo == IF lo1 > lo2 THEN lo1 ELSE lo2
        hi == IF hi1 < hi2 THEN hi1 ELSE hi2
    IN  IF hi > lo THEN hi - lo ELSE 0

\* contour areas cv2.findContours / cv2.contourArea report for the part of the
\* blob lying in columns xlo..xhi-1 and rows ylo..yhi-1: a filled block of
\* w x h pixels has one outer contour, through the centres of its border
\* pixels; an empty region has none
BlobContours(blob, xlo, xhi, ylo, yhi) ==
    IF blob = <<>> THEN <<>>
    ELSE LET w == Overlap(xlo, xhi, blob[1], blob[3])
             h == Overlap(ylo, yhi, blob[2], blob[4])
         IN  IF w = 0 \/ h = 0 THEN <<>> ELSE << (w - 1) * (h - 1) >>

\* roi_mask = fg_mask[y1:y2, x1:x2]; contours of roi_mask
SliceContours(blob, c) ==
    BlobContours(blob, PyIndex(c[1], FrameSize[1]), PyIndex(c[3], FrameSize[1]),
                       PyIndex(c[2], FrameSize[2]), PyIndex(c[4], FrameSize[2]))

GeoFrame(blob) ==
    [small |-> 0, crop |-> [c \in WideRects |-> SliceContours(blob, c)], blob |-> blob]

GeoFrames == { GeoFrame(b) : b \in Blobs }

GeoNext ==
    \/ \E c \in WideRects : Len(rois) < MaxFewRois /\ AddRoi(c)
    \/ ClearRois
    \/ \E f \in GeoFrames : ProcessFrame(f)

SpecGeo == Init /\ [][GeoNext]_vars

---------------------------------------------------------------------------
\* A store that is edited and scored by frames until it is first saved, and
\* read back by a fresh detector: one save and load cycle per behaviour.

SavedRects == { <<0, 0, 100, 100>>, <<600, 440, 700, 540>> }

\* frames with no foreground, or with foreground in the first rectangle
SavedFrames == { GeoFrame(<<>>), GeoFrame(<<0, 0, 100, 100>>) }

PersistNext ==
    \/ \E c \in SavedRects : ~file.exists /\ Len(rois) < MaxSavedRois /\ AddRoi(c)
    \/ \E id \in 1..MaxId : ~file.exists /\ DeleteRoi(id)
    \/ \E f \in SavedFrames : ~file.exists /\ ProcessFrame(f)
    \/ \E ok \in BOOLEAN : SaveRois(ok)
    \/ \E ok \in BOOLEAN : Restart(ok)

SpecPersist == Init /\ [][PersistNext]_vars

---------------------------------------------------------------------------
\* Two detectors side by side over the same ROI file, each used
\* single-threaded and each holding at most one ROI.  The second one is the
\* record twin.  Both are handed the same frames, and a frame is handed over
\* only when both or neither have ROIs, so that both background subtractors
\* have absorbed the same frames.

\* process_frame as a function of a detector d = [rois, hist, fed, rain, bg]:
\* the detector after the call and the dict returned.  The dict's rain_active
\* and active_rois are built at lines 296-297, before the detection runs.
PassOutcome(d, f, cfg, t) ==
    LET early == [motion_detected |-> FALSE,
                  rain_active     |-> d.rain,
                  active_rois     |-> ActiveCount(d.rois)]
    IN  IF d.rois = <<>>
        THEN [det |-> d, result |-> early]
        ELSE LET rain == RainActive(f, cfg)
                 st   == ScanRois([rois |-> d.rois, hist |-> d.hist,
                                   fed |-> d.fed, any |-> FALSE, log |-> <<>>],
                                  1, f, rain, cfg, t)
             IN  [det    |-> [rois |-> st.rois, hist |-> st.hist, fed |-> st.fed,
                              rain |-> rain, bg |-> BgApply(d.bg)],
                  result |-> [early EXCEPT !.motion_detected = st.any]]

TwinAddRoi(c) ==
    /\ twin.rois = <<>>
    /\ ~AtCapacity(twin.rois, config)
    /\ twin' = [twin EXCEPT !.rois = Append(@, NewRoi(NextRoiId(@), c))]
    /\ UNCHANGED detvars

BothProcess(f) ==
    /\ (rois = <<>>) <=> (twin.rois = <<>>)
    /\ ProcessFrameCall(f)
    /\ twin' = PassOutcome(twin, f, config, now).det

TwinNext ==
    \/ \E c \in Coords : rois = <<>> /\ AddRoi(c)
    \/ \E ok \in BOOLEAN : SaveRois(ok)
    \/ \E ok \in BOOLEAN : LoadRois(ok)
    \/ \E c \in Coords : TwinAddRoi(c)
    \/ \E f \in Frames : BothProcess(f)

SpecTwin == Init /\ [][TwinNext]_vars

---------------------------------------------------------------------------
\* add_roi called with arbitrary integers: rectangles as drawn, with the
\* corners swapped, and with no area.

LooseRects == Rects \cup { <<100, 100, 0, 0>>, <<50, 50, 50, 50>> }

LooseNext ==
    \/ \E c \in LooseRects : AddRoi(c)
    \/ \E id \in 1..MaxId : DeleteRoi(id)
    \/ ClearRois

SpecLoose == Init /\ [][LooseNext]_vars

---------------------------------------------------------------------------
\* A detector whose thresholds are edited through the web API between calls.

\* values a request may carry for motion_threshold, min_contour_area and
\* max_small_contours: the defaults and one larger value each
PostedThresholds ==
    [motion_threshold   : {DetectorConfig.motion_threshold, 2000},
     min_contour_area   : {DetectorConfig.min_contour_area, 2000},
     max_small_contours : {DetectorConfig.max_small_contours, 60}]

ConfigNext ==
    \/ \E c \in Coords : Len(rois) < MaxFewRois /\ AddRoi(c)
    \/ ClearRois
    \/ \E f \in Frames : ProcessFrame(f)
    \/ \E d \in PostedThresholds :
          ApiMotionConfig(d.motion_threshold, d.min_contour_area, d.max_small_contours)

SpecConfig == Init /\ [][ConfigNext]_vars

---------------------------------------------------------------------------
\* Single-threaded use of the detector with its file: the store is edited,
\* scored by frames, saved, and loaded again into the same detector.

\* a DetectorConfig whose max_rois was set to 2 before construction
TwoRoiConfig == [DetectorConfig EXCEPT !.max_rois = 2]

InitReload == InitCfg(TwoRoiConfig, NoFile)

ReloadNext ==
    \/ \E c \in Coords : AddRoi(c)
    \/ ClearRois
    \/ \E f \in Frames : ProcessFrame(f)
    \/ \E ok \in BOOLEAN : SaveRois(ok)
    \/ \E ok \in BOOLEAN : LoadRois(ok)

SpecReload == InitReload /\ [][ReloadNext]_vars

---------------------------------------------------------------------------
\* A detector with room for two ROIs while the clock read by time.time()
\* moves on between the calls.  The clock is one that is not set back.

Tick ==
    /\ now < MaxTime
    /\ now' = now + 1
    /\ last' = [op |-> "tick", ret |-> TRUE]
    /\ motion_log' = <<>>
    /\ UNCHANGED <<config, twin, sleep_prevention, person, rois, motion_history, rain_detection_active, bg_nframes,
                   file, frame, result, fed, camvars, nreq, web>>

ClockNext ==
    \/ \E c \in Coords : AddRoi(c)
    \/ \E id \in 1..MaxId : DeleteRoi(id)
    \/ \E f \in Frames : ProcessFrame(f)
    \/ Tick

SpecClock == InitReload /\ [][ClockNext]_vars

---------------------------------------------------------------------------
\* Frames given by the contour areas of the whole foreground mask: the rain
\* classifier filters them by area before it counts them.  The thresholds
\* are the defaults or the values posted through the web API.

\* contours of area min_contour_area count as small too
SmallContoursInclusive(contours, cfg) ==
    SelectSeq(contours, LAMBDA a : a <= cfg.min_contour_area)

\* small_contours = [c for c in temp_contours if contourArea(c) < min_contour_area]
SmallContours(contours, cfg) ==
    SelectSeq(contours, LAMBDA a : a < cfg.min_contour_area)

\* a mask with k contours just below the default min_contour_area, j
\* contours of exactly that area and l contours just above it
MaskOf(k, j, l) ==
    [i \in 1..(k + j + l) |->
        IF i <= k THEN DetectorConfig.min_contour_area - 1
        ELSE IF i <= k + j THEN DetectorConfig.min_contour_area
        ELSE DetectorConfig.min_contour_area + 1]

\* around the default max_small_contours: one below, at it, one above
Masks ==
    { MaskOf(k, j, l) :
        k \in (DetectorConfig.max_small_contours - 1)..(DetectorConfig.max_small_contours + 1),
        j \in 0..2, l \in 0..1 }

\* the frame as the pass sees it; the mask's contours lie outside the ROI
MaskFrame(m, cfg) ==
    [small |-> Len(SmallContours(m, cfg)), crop |-> [c \in Coords |-> <<>>], mask |-> m]

RainNext ==
    \/ \E c \in Coords : Len(rois) < MaxFewRois /\ AddRoi(c)
    \/ ClearRois
    \/ \E m \in Masks : ProcessFrame(MaskFrame(m, config))
    \/ \E d \in PostedThresholds :
          ApiMotionConfig(d.motion_threshold, d.min_contour_area, d.max_small_contours)

SpecRain == Init /\ [][RainNext]_vars

---------------------------------------------------------------------------
\* Crops holding several contours around the area limit, scored with motion
\* thresholds below, at and above what those contours add up to.

\* contour areas one below, at and one above the default min_contour_area
NearLimitAreas ==
    { DetectorConfig.min_contour_area - 1, DetectorConfig.min_contour_area,
      DetectorConfig.min_contour_area + 1 }

\* contours found in one crop: up to three of them
NearLimitCrops ==
    {<<>>} \cup [1..1 -> NearLimitAreas] \cup [1..2 -> NearLimitAreas]
           \cup [1..3 -> NearLimitAreas]

CropFrame(cs) == [small |-> 0, crop |-> [c \in Coords |-> cs]]

\* motion_threshold as constructed, and posted as the area of one and of two
\* contours at the limit
RawThresholds ==
    { DetectorConfig.motion_threshold, DetectorConfig.min_contour_area,
      2 * DetectorConfig.min_contour_area }

RawNext ==
    \/ \E c \in Coords : Len(rois) < MaxFewRois /\ AddRoi(c)
    \/ ClearRois
    \/ \E cs \in NearLimitCrops : ProcessFrame(CropFrame(cs))
    \/ \E mt \in RawThresholds :
          ApiMotionConfig(mt, config.min_contour_area, config.max_small_contours)

SpecRaw == Init /\ [][RawNext]_vars

---------------------------------------------------------------------------
\* The web application: the camera thread (_camera_loop) runs process_frame
\* statement by statement while HTTP handler threads serve ROI requests.  No
\* lock is taken anywhere in detector.py or app.py.

\* process_frame, lines 294-301: the results dict is built, then `if self.rois`
CamBegin(f) ==
    /\ pc = "idle"
    /\ npass < MaxPasses
    /\ npass' = npass + 1
    /\ frame' = f
    /\ loc' = [NoLocals EXCEPT !.rain_active = rain_detection_active,
                               !.active_rois = ActiveCount(rois)]
    /\ pc' = IF rois = <<>> THEN "return" ELSE "detect"
    /\ motion_log' = <<>>
    /\ UNCHANGED <<config, twin, sleep_prevention, person, rois, motion_history, rain_detection_active, bg_nframes,
                   file, now, result, last, fed, it, cur, nreq, web>>

\* detect_motion_in_rois, lines 226-248: the empty check, the mask, the rain flag
CamDetect ==
    /\ pc = "detect"
    /\ IF rois = <<>>
       THEN /\ pc' = "return"
            /\ UNCHANGED <<rain_detection_active, bg_nframes, it>>
       ELSE /\ bg_nframes' = BgApply(bg_nframes)
            /\ rain_detection_active' = RainActive(frame, config)
            /\ it' = 1
            /\ pc' = "loop"
    /\ UNCHANGED <<config, twin, sleep_prevention, person, motion_log, rois, motion_history, file, now, frame, result, last,
                   fed, cur, loc, npass, nreq, web>>

\* lines 251-253: the list iterator yields the next dict, or the loop ends
CamNext ==
    /\ pc = "loop"
    /\ IF it > Len(rois)
       THEN /\ pc' = "return"
            /\ UNCHANGED <<it, cur, loc>>
       ELSE /\ cur' = it
            /\ it' = it + 1
            /\ loc' = [loc EXCEPT !.roi_id = rois[it].id, !.coords = rois[it].coords]
            /\ pc' = "init"
    /\ UNCHANGED <<config, twin, sleep_prevention, person, motion_log, rois, motion_history, rain_detection_active, bg_nframes,
                   file, now, frame, result, last, fed, npass, nreq, web>>

\* lines 256-257
CamInit ==
    /\ pc = "init"
    /\ motion_history' = HistInit(motion_history, loc.roi_id)
    /\ fed' = FedInit(fed, loc.roi_id, loc.roi_id \notin DOMAIN motion_history)
    /\ pc' = "score"
    /\ UNCHANGED <<config, twin, sleep_prevention, person, motion_log, rois, rain_detection_active, bg_nframes, file, now, frame,
                   result, last, it, cur, loc, npass, nreq, web>>

\* lines 260-268; self.motion_history[roi_id] raises KeyError when the entry is gone
CamScore ==
    /\ pc = "score"
    /\ IF loc.roi_id \notin DOMAIN motion_history
       THEN /\ pc' = "raised"
            /\ UNCHANGED <<motion_history, fed, loc>>
       ELSE LET area == TotalArea(frame.crop[loc.coords], config) IN
            /\ loc' = [loc EXCEPT !.total_area = area]
            /\ motion_history' = HistAppend(motion_history, loc.roi_id, RawMotion(area, config))
            /\ fed' = FedAppend(fed, loc.roi_id, RawMotion(area, config))
            /\ pc' = "trim"
    /\ UNCHANGED <<config, twin, sleep_prevention, person, motion_log, rois, rain_detection_active, bg_nframes, file, now, frame,
                   result, last, it, cur, npass, nreq, web>>

\* lines 269-270
CamTrim ==
    /\ pc = "trim"
    /\ IF loc.roi_id \notin DOMAIN motion_history
       THEN /\ pc' = "raised"
            /\ UNCHANGED motion_history
       ELSE /\ motion_history' = HistTrim(motion_history, loc.roi_id, config)
            /\ pc' = "decide"
    /\ UNCHANGED <<config, twin, sleep_prevention, person, motion_log, rois, rain_detection_active, bg_nframes, file, now, frame,
                   result, last, fed, it, cur, loc, npass, nreq, web>>

\* lines 273-288; the flag is written to the dict bound to `roi`, in the list or not
CamDecide ==
    /\ pc = "decide"
    /\ IF loc.roi_id \notin DOMAIN motion_history
       THEN /\ pc' = "raised"
            /\ UNCHANGED <<rois, loc, motion_log>>
       ELSE LET md == MotionDecision(ConsistentMotion(motion_history[loc.roi_id], config),
                                     rain_detection_active) IN
            /\ rois' = IF cur = 0 THEN rois
                       ELSE [rois EXCEPT ![cur] = MarkRoi(@, md, now)]
            /\ loc' = [loc EXCEPT !.any = AnyMotion(@, md)]
            /\ motion_log' = LogMotion(motion_log, loc.roi_id, md)
            /\ pc' = "loop"
    /\ UNCHANGED <<config, twin, sleep_prevention, person, motion_history, rain_detection_active, bg_nframes, file,
                   now, frame, result, last, fed, it, cur, npass, nreq, web>>

\* lines 290 and 302-304: process_frame returns its dict
CamReturn ==
    /\ pc = "return"
    /\ result' = [motion_detected |-> loc.any,
                  rain_active     |-> loc.rain_active,
                  active_rois     |-> loc.active_rois]
    /\ last' = [op |-> "process", ret |-> loc.any]
    /\ pc' = "idle"
    /\ it' = 0
    /\ cur' = 0
    /\ loc' = NoLocals
    /\ UNCHANGED <<config, twin, sleep_prevention, person, motion_log, rois, motion_history, rain_detection_active, bg_nframes,
                   file, now, frame, fed, npass, nreq, web>>

\* save_rois as the handlers call it: the file becomes the list, when writable
Saved(doit, ok, rs, f) ==
    IF doit /\ ok THEN [exists |-> TRUE, content |-> JsonDump(rs)] ELSE f

\* api_add_roi: add_roi, then save_rois when it succeeded
ApiAddRoi(c, ok) ==
    /\ nreq < MaxRequests
    /\ nreq' = nreq + 1
    /\ AddRoiCall(c)
    /\ UNCHANGED <<motion_log, web>>
    /\ file' = Saved(last'.ret, ok, rois', file)

\* api_delete_roi: delete_roi, then save_rois when it succeeded
ApiDeleteRoi(id, ok) ==
    /\ nreq < MaxRequests
    /\ nreq' = nreq + 1
    /\ DeleteRoiCall(id)
    /\ UNCHANGED <<motion_log, web>>
    /\ file' = Saved(last'.ret, ok, rois', file)

\* api_clear_rois: clear_rois, then save_rois
ApiClearRois(ok) ==
    /\ nreq < MaxRequests
    /\ nreq' = nreq + 1
    /\ ClearRoisCall
    /\ UNCHANGED <<motion_log, web>>
    /\ file' = Saved(TRUE, ok, rois', file)

CameraStep ==
    \/ \E f \in Frames : CamBegin(f)
    \/ CamDetect
    \/ CamNext
    \/ CamInit
    \/ CamScore
    \/ CamTrim
    \/ CamDecide
    \/ CamReturn

HttpStep ==
    \/ \E c \in Coords, ok \in BOOLEAN : ApiAddRoi(c, ok)
    \/ \E id \in 1..MaxId, ok \in BOOLEAN : ApiDeleteRoi(id, ok)
    \/ \E ok \in BOOLEAN : ApiClearRois(ok)

ConcNext == CameraStep \/ HttpStep

SpecConc == Init /\ [][ConcNext]_vars

---------------------------------------------------------------------------
\* The ROI requests served by two HTTP handler threads at once.  No lock is
\* taken anywhere, so the threads interleave between the statements of
\* add_roi and between the steps of save_rois: opening the file for writing
\* (which truncates it), json.dump into the file object's buffer, and the
\* flush at the end of the with block, which writes the buffer at the
\* thread's own offset 0.  delete_roi and clear_rois are taken as one step
\* each.  The rectangles and ids used here make the JSON text of a longer
\* list a longer text.

SetThr(t, th) == [web EXCEPT !.thr[t] = th]

AtPc(t, p) == web.thr[t].pc = p

\* api_add_roi up to the capacity check of add_roi
HttpAddCheck(t, c) ==
    /\ AtPc(t, "idle")
    /\ nreq < MaxRequests
    /\ nreq' = nreq + 1
    /\ IF AtCapacity(rois, config)
       THEN /\ last' = [op |-> "add", ret |-> FALSE]
            /\ UNCHANGED web
       ELSE /\ web' = SetThr(t, [IdleHandler EXCEPT !.pc = "add_id", !.c = c])
            /\ UNCHANGED last
    /\ UNCHANGED <<config, twin, sleep_prevention, person, motion_log, rois, motion_history, rain_detection_active,
                   bg_nframes, file, now, frame, result, fed, camvars>>

\* roi_id = max([roi['id'] for roi in self.rois], default=0) + 1
HttpAddId(t) ==
    /\ AtPc(t, "add_id")
    /\ web' = SetThr(t, [web.thr[t] EXCEPT !.pc = "add_append", !.roi_id = NextRoiId(rois)])
    /\ UNCHANGED <<config, twin, sleep_prevention, person, motion_log, rois, motion_history, rain_detection_active,
                   bg_nframes, file, now, frame, result, last, fed, camvars, nreq>>

\* self.rois.append(roi); return True; the handler goes on to save_rois
HttpAddAppend(t) ==
    /\ AtPc(t, "add_append")
    /\ rois' = Append(rois, NewRoi(web.thr[t].roi_id, web.thr[t].c))
    /\ last' = [op |-> "add", ret |-> TRUE]
    /\ web' = SetThr(t, [IdleHandler EXCEPT !.pc = "save_open"])
    /\ UNCHANGED <<config, twin, sleep_prevention, person, motion_log, motion_history, rain_detection_active,
                   bg_nframes, file, now, frame, result, fed, camvars, nreq>>

\* api_delete_roi up to the return of delete_roi
HttpDelete(t, id) ==
    /\ AtPc(t, "idle")
    /\ nreq < MaxRequests
    /\ nreq' = nreq + 1
    /\ DeleteRoiCall(id)
    /\ web' = IF last'.ret THEN SetThr(t, [IdleHandler EXCEPT !.pc = "save_open"]) ELSE web
    /\ UNCHANGED <<motion_log, file>>

\* api_clear_rois up to the return of clear_rois
HttpClear(t) ==
    /\ AtPc(t, "idle")
    /\ nreq < MaxRequests
    /\ nreq' = nreq + 1
    /\ ClearRoisCall
    /\ web' = SetThr(t, [IdleHandler EXCEPT !.pc = "save_open"])
    /\ UNCHANGED <<motion_log, file>>

\* open(filename, 'w'): the file exists and is empty, or (ok false) the call
\* raises and save_rois returns False
HttpSaveOpen(t, ok) ==
    /\ AtPc(t, "save_open")
    /\ IF ok
       THEN /\ file' = [exists |-> TRUE, content |-> <<>>]
            /\ web' = [SetThr(t, [IdleHandler EXCEPT !.pc = "save_dump"]) EXCEPT !.disk = "empty"]
       ELSE /\ web' = [SetThr(t, IdleHandler) EXCEPT !.save_failed = TRUE]
            /\ UNCHANGED file
    /\ UNCHANGED <<config, twin, sleep_prevention, person, motion_log, rois, motion_history, rain_detection_active,
                   bg_nframes, now, frame, result, last, fed, camvars, nreq>>

\* json.dump(self.rois, f, indent=2): the text of the list as it is now, in
\* the file object's buffer
HttpSaveDump(t) ==
    /\ AtPc(t, "save_dump")
    /\ web' = SetThr(t, [IdleHandler EXCEPT !.pc = "save_close", !.buf = JsonDump(rois)])
    /\ UNCHANGED <<config, twin, sleep_prevention, person, motion_log, rois, motion_history, rain_detection_active,
                   bg_nframes, file, now, frame, result, last, fed, camvars, nreq>>

\* The buffer written at offset 0 over the bytes the file holds: a text at
\* least as long replaces them, a shorter one leaves their tail behind it.
Covers(buf, f) == Len(buf) >= Len(f.content)

\* leaving the with block: the buffer is flushed and the file closed
HttpSaveClose(t) ==
    /\ AtPc(t, "save_close")
    /\ file' = IF Covers(web.thr[t].buf, file)
               THEN [exists |-> TRUE, content |-> web.thr[t].buf]
               ELSE file
    /\ web' = [SetThr(t, IdleHandler) EXCEPT
                  !.disk = IF Covers(web.thr[t].buf, file) THEN "json" ELSE "torn"]
    /\ UNCHANGED <<config, twin, sleep_prevention, person, motion_log, rois, motion_history, rain_detection_active,
                   bg_nframes, now, frame, result, last, fed, camvars, nreq>>

HandlersNext ==
    \E t \in Handlers :
        \/ \E c \in Coords : HttpAddCheck(t, c)
        \/ HttpAddId(t)
        \/ HttpAddAppend(t)
        \/ \E id \in 1..MaxId : HttpDelete(t, id)
        \/ HttpClear(t)
        \/ \E ok \in BOOLEAN : HttpSaveOpen(t, ok)
        \/ HttpSaveDump(t)
        \/ HttpSaveClose(t)

SpecHandlers == InitReload /\ [][HandlersNext]_vars

---------------------------------------------------------------------------
\* The camera feed: start_camera and stop_camera served by the handler
\* threads, and the _camera_loop threads they start.  web.loops[k] is the
\* k-th loop thread started: pc is "open" before cap.isOpened() is tested,
\* "run" inside the while loop, "cleanup" at the finally block and "dead" once
\* the thread has returned; why tells what made it leave the loop.  One
\* iteration of the while loop (test, read, process_frame, emit, sleep) is one
\* step.

Loops == 1..Len(web.loops)

Alive(k) == k \in Loops /\ web.loops[k].pc # "dead"

\* start_camera: if self.camera_active: return True
StartCheck(t) ==
    /\ AtPc(t, "idle")
    /\ nreq < MaxRequests
    /\ nreq' = nreq + 1
    /\ web' = IF web.camera_active THEN web
              ELSE SetThr(t, [IdleHandler EXCEPT !.pc = "start_thread"])
    /\ UNCHANGED <<config, twin, sleep_prevention, person, motion_log, rois, motion_history, rain_detection_active,
                   bg_nframes, file, now, frame, result, last, fed, camvars>>

\* start_camera: the thread is created, camera_active set and the thread started
StartThread(t) ==
    /\ AtPc(t, "start_thread")
    /\ web' = [SetThr(t, IdleHandler) EXCEPT
                  !.loops = Append(@, [pc |-> "open", why |-> "none"]),
                  !.camera_thread = Len(web.loops) + 1,
                  !.camera_active = TRUE,
                  !.writer = 0]
    /\ UNCHANGED <<config, twin, sleep_prevention, person, motion_log, rois, motion_history, rain_detection_active,
                   bg_nframes, file, now, frame, result, last, fed, camvars, nreq>>

\* stop_camera: self.camera_active = False
StopClear(t) ==
    /\ AtPc(t, "idle")
    /\ nreq < MaxRequests
    /\ nreq' = nreq + 1
    /\ web' = [SetThr(t, [IdleHandler EXCEPT !.pc = "stop_join"]) EXCEPT
                  !.camera_active = FALSE,
                  !.writer = 0]
    /\ UNCHANGED <<config, twin, sleep_prevention, person, motion_log, rois, motion_history, rain_detection_active,
                   bg_nframes, file, now, frame, result, last, fed, camvars>>

\* stop_camera: self.camera_thread.join(timeout=2) when the thread is alive,
\* and the return.  The join returns when the thread has ended or when the
\* two seconds are over, whichever comes first, so stop_camera returns with
\* the loop thread dead or still alive.
StopJoin(t) ==
    /\ AtPc(t, "stop_join")
    /\ web' = SetThr(t, IdleHandler)
    /\ UNCHANGED <<config, twin, sleep_prevention, person, motion_log, rois, motion_history, rain_detection_active,
                   bg_nframes, file, now, frame, result, last, fed, camvars, nreq>>

\* _camera_loop up to the while loop; opened: cap.isOpened()
LoopOpen(k, opened) ==
    /\ k \in Loops
    /\ web.loops[k].pc = "open"
    /\ web' = IF opened
              THEN [web EXCEPT !.loops[k].pc = "run"]
              ELSE [web EXCEPT !.loops[k] = [pc |-> "dead", why |-> "open"],
                               !.camera_active = FALSE,
                               !.writer = k]
    /\ UNCHANGED <<config, twin, sleep_prevention, person, motion_log, rois, motion_history, rain_detection_active,
                   bg_nframes, file, now, frame, result, last, fed, camvars, nreq>>

\* one iteration of `while self.camera_active` whose read succeeds
LoopPass(k, f) ==
    /\ k \in Loops
    /\ web.loops[k].pc = "run"
    /\ web.camera_active
    /\ ProcessFrame(f)

\* the loop is left: camera_active is false at the test (a request wrote it,
\* or another loop thread did), or cap.read() fails
LoopLeave(k, ret) ==
    /\ k \in Loops
    /\ web.loops[k].pc = "run"
    /\ web.camera_active => ~ret
    /\ web' = [web EXCEPT !.loops[k] =
                  [pc  |-> "cleanup",
                   why |-> IF web.camera_active THEN "read"
                           ELSE IF web.writer = 0 THEN "stop" ELSE "other"]]
    /\ UNCHANGED <<config, twin, sleep_prevention, person, motion_log, rois, motion_history, rain_detection_active,
                   bg_nframes, file, now, frame, result, last, fed, camvars, nreq>>

\* finally: cap.release(); self.camera_active = False
LoopCleanup(k) ==
    /\ k \in Loops
    /\ web.loops[k].pc = "cleanup"
    /\ web' = [web EXCEPT !.loops[k].pc = "dead",
                          !.camera_active = FALSE,
                          !.writer = k]
    /\ UNCHANGED <<config, twin, sleep_prevention, person, motion_log, rois, motion_history, rain_detection_active,
                   bg_nframes, file, now, frame, result, last, fed, camvars, nreq>>

CameraNext ==
    \/ \E t \in Handlers :
          \/ StartCheck(t)
          \/ StartThread(t)
          \/ StopClear(t)
          \/ StopJoin(t)
    \/ \E k \in 1..MaxRequests :
          \/ \E opened \in BOOLEAN : LoopOpen(k, opened)
          \/ \E f \in Frames : LoopPass(k, f)
          \/ \E ret \in BOOLEAN : LoopLeave(k, ret)
          \/ LoopCleanup(k)

SpecCamera == Init /\ [][CameraNext]_vars

---------------------------------------------------------------------------
\* SleepPrevention: one thread calls start() and stop(), one call after the
\* other; each start() that finds active false starts a _prevent_sleep_loop
\* thread.  A loop thread is at "test" (the while condition), at "sleep"
\* (inside _keep_awake and time.sleep(30)) or "dead".

AliveLoops == { k \in 1..Len(sleep_prevention.loops) : sleep_prevention.loops[k] # "dead" }

\* start(): return when active, else set active and start a loop thread
SleepStart ==
    /\ sleep_prevention.caller = "idle"
    /\ sleep_prevention.calls < MaxSleepCalls
    /\ sleep_prevention' =
          IF sleep_prevention.active
          THEN [sleep_prevention EXCEPT !.calls = @ + 1]
          ELSE [sleep_prevention EXCEPT !.calls = @ + 1,
                                        !.active = TRUE,
                                        !.loops = Append(@, "test"),
                                        !.thread = Len(sleep_prevention.loops) + 1]
    /\ UNCHANGED <<config, twin, person, rois, motion_history, rain_detection_active,
                   bg_nframes, file, now, frame, result, last, fed, camvars, nreq,
                   motion_log, web>>

\* stop(): self.active = False; the join follows when the thread is alive
SleepStopClear ==
    /\ sleep_prevention.caller = "idle"
    /\ sleep_prevention.calls < MaxSleepCalls
    /\ sleep_prevention' =
          [sleep_prevention EXCEPT
              !.calls = @ + 1,
              !.active = FALSE,
              !.caller = IF sleep_prevention.thread \in AliveLoops THEN "join" ELSE "idle"]
    /\ UNCHANGED <<config, twin, person, rois, motion_history, rain_detection_active,
                   bg_nframes, file, now, frame, result, last, fed, camvars, nreq,
                   motion_log, web>>

\* stop(): self.thread.join(timeout=1) returns, the thread having ended or
\* the second being over, and stop() returns
SleepStopReturn ==
    /\ sleep_prevention.caller = "join"
    /\ sleep_prevention' = [sleep_prevention EXCEPT !.caller = "idle"]
    /\ UNCHANGED <<config, twin, person, rois, motion_history, rain_detection_active,
                   bg_nframes, file, now, frame, result, last, fed, camvars, nreq,
                   motion_log, web>>

\* while self.active: _keep_awake() and time.sleep(30) follow, or the thread ends
SleepLoopTest(k) ==
    /\ k \in 1..Len(sleep_prevention.loops)
    /\ sleep_prevention.loops[k] = "test"
    /\ sleep_prevention' =
          [sleep_prevention EXCEPT
              !.loops[k] = IF sleep_prevention.active THEN "sleep" ELSE "dead"]
    /\ UNCHANGED <<config, twin, person, rois, motion_history, rain_detection_active,
                   bg_nframes, file, now, frame, result, last, fed, camvars, nreq,
                   motion_log, web>>

\* time.sleep(30) is over
SleepLoopWake(k) ==
    /\ k \in 1..Len(sleep_prevention.loops)
    /\ sleep_prevention.loops[k] = "sleep"
    /\ sleep_prevention' = [sleep_prevention EXCEPT !.loops[k] = "test"]
    /\ UNCHANGED <<config, twin, person, rois, motion_history, rain_detection_active,
                   bg_nframes, file, now, frame, result, last, fed, camvars, nreq,
                   motion_log, web>>

SleepNext ==
    \/ SleepStart
    \/ SleepStopClear
    \/ SleepStopReturn
    \/ \E k \in 1..MaxSleepCalls : SleepLoopTest(k)
    \/ \E k \in 1..MaxSleepCalls : SleepLoopWake(k)

SpecSleep == Init /\ [][SleepNext]_vars

---------------------------------------------------------------------------
\* The legacy application (main.py): PersonDetector.process_frame with its
\* notification step, run by one thread, while the clock moves on between
\* the frames.  ROIs are numbered by their position in self.rois.

\* self.notification_cooldown = 2.0
NotificationCooldown == 2

\* the `> 2` of the per-ROI test in process_frame
RoiThrottle == 2

\* if self.background_learning_frames > 30
LearningFrames == 30

\* time.time(): seconds since 1970, of which the model counts those since the
\* run began; the run begins more than the cooldown after 0
TimeTime == NotificationCooldown + 1 + now

\* hasattr(roi, name) for a dict roi: the keys of a dict are not attributes
HasAttr(roi, name) == FALSE

\* roi.get('last_notification', 0)
LastNotificationOf(roi) ==
    IF roi.last_notification = <<>> THEN 0 ELSE roi.last_notification[1]

\* not hasattr(roi, 'last_notification') or time.time() - roi.get('last_notification', 0) > 2
MayNotify(roi, t) ==
    ~HasAttr(roi, "last_notification") \/ t - LastNotificationOf(roi) > RoiThrottle

\* the cooldown is over when it has just elapsed
NotifyAtCooldown(p, t) ==
    IF t - p.last_notification_time >= NotificationCooldown
    THEN [p EXCEPT !.detection_count = @ + 1,
                   !.last_notification_time = t,
                   !.notified = Append(@, TRUE)]
    ELSE [p EXCEPT !.notified = Append(@, FALSE)]

\* notify_motion_detected
NotifyMotionDetected(p, t) ==
    IF t - p.last_notification_time > NotificationCooldown
    THEN [p EXCEPT !.detection_count = @ + 1,
                   !.last_notification_time = t,
                   !.notified = Append(@, TRUE)]
    ELSE [p EXCEPT !.notified = Append(@, FALSE)]

\* log_motion_detection: one more entry in the detection log
LogMotionDetection(p, i) == [p EXCEPT !.logged = Append(@, i)]

\* the body of `for i, roi in enumerate(self.rois)` in process_frame
NotifyRoi(p, i, t) ==
    IF p.rois[i].motion_detected /\ MayNotify(p.rois[i], t)
    THEN [LogMotionDetection(NotifyMotionDetected(p, t), i)
             EXCEPT !.rois[i].last_notification = <<t>>]
    ELSE p

RECURSIVE NotifyRois(_, _, _)
NotifyRois(p, i, t) ==
    IF i > Len(p.rois) THEN p ELSE NotifyRois(NotifyRoi(p, i, t), i + 1, t)

\* detect_motion_in_rois of main.py: motion[i] tells whether the i-th crop
\* holds more than MOTION_THRESHOLD foreground pixels
LegacyDetect(p, motion) ==
    [p EXCEPT !.rois = [i \in 1..Len(p.rois) |-> [p.rois[i] EXCEPT !.motion_detected = motion[i]]]]

\* self.background_learning_frames += 1; the model stops counting once the
\* background has been learnt
Learnt(n) == IF n > LearningFrames THEN n ELSE n + 1

\* PersonDetector.process_frame
LegacyPass(p, motion, t) ==
    LET q == [p EXCEPT !.logged = <<>>, !.notified = <<>>] IN
    IF Len(q.rois) > 0
    THEN LET r == [q EXCEPT !.background_learning_frames = Learnt(@)] IN
         IF r.background_learning_frames > LearningFrames
         THEN LET d == NotifyRois(LegacyDetect(r, motion), 1, t)
              IN  [d EXCEPT !.person_detected =
                      \E i \in 1..Len(d.rois) : d.rois[i].motion_detected]
         ELSE [r EXCEPT !.person_detected = FALSE]
    ELSE [q EXCEPT !.person_detected = FALSE]

LegacyProcessFrame(motion) ==
    /\ person' = LegacyPass(person, motion, TimeTime)
    /\ last' = [op |-> "legacy_process", ret |-> person'.person_detected]
    /\ UNCHANGED <<config, twin, sleep_prevention, rois, motion_history, rain_detection_active,
                   bg_nframes, file, now, frame, result, fed, camvars, nreq, motion_log, web>>

\* select_roi_with_opencv with a valid selection
LegacySelectRoi ==
    /\ Len(person.rois) < MaxLegacyRois
    /\ person' = [person EXCEPT
                     !.rois = Append(@, [id |-> Len(person.rois),
                                         motion_detected |-> FALSE,
                                         last_notification |-> <<>>])]
    /\ last' = [op |-> "legacy_select", ret |-> TRUE]
    /\ UNCHANGED <<config, twin, sleep_prevention, rois, motion_history, rain_detection_active,
                   bg_nframes, file, now, frame, result, fed, camvars, nreq, motion_log, web>>

\* the 'c' key with ROIs present
LegacyClearRois ==
    /\ Len(person.rois) > 0
    /\ person' = [person EXCEPT !.rois = <<>>, !.background_learning_frames = 0]
    /\ last' = [op |-> "legacy_clear", ret |-> TRUE]
    /\ UNCHANGED <<config, twin, sleep_prevention, rois, motion_history, rain_detection_active,
                   bg_nframes, file, now, frame, result, fed, camvars, nreq, motion_log, web>>

LegacyNext ==
    \/ LegacySelectRoi
    \/ LegacyClearRois
    \/ \E motion \in [1..MaxLegacyRois -> BOOLEAN] : LegacyProcessFrame(motion)
    \/ Tick

SpecLegacy == Init /\ [][LegacyNext]_vars

---------------------------------------------------------------------------
\* Properties.

AfterPass == last.op = "process"

InPass == pc \notin {"idle", "raised"}

\* id and coords of every ROI, in list order
StoreView(rs) == [i \in 1..Len(rs) |-> <<rs[i].id, rs[i].coords>>]

\* C1 -- Rain gate precedence: after a pass over a non-empty store whose frame
\* the rain classifier calls rain-active, no ROI has motion_detected set and
\* the pass has returned motion_detected = false.
RainGatePrecedence ==
    (AfterPass /\ rois # <<>> /\ RainActive(frame, config))
        => /\ \A i \in 1..Len(rois) : ~rois[i].motion_detected
           /\ ~result.motion_detected

\* a rain-active pass in which some ROI's own window says motion
RainGateWitness ==
    /\ AfterPass /\ RainActive(frame, config)
    /\ \E i \in 1..Len(rois) :
          /\ rois[i].id \in DOMAIN motion_history
          /\ ConsistentMotion(motion_history[rois[i].id], config)

\* C2 -- Smoothing majority (window 3, rain inactive): after a pass, a ROI has
\* confirmed motion exactly when at least 3 raw decisions have been fed to its
\* window and at least 2 of the newest 3 are true.
SmoothingMajority ==
    (AfterPass /\ ~RainActive(frame, config) /\ config.motion_smoothing_frames = 3)
        => \A i \in 1..Len(rois) :
              /\ rois[i].id \in DOMAIN fed
              /\ rois[i].motion_detected
                    <=> (Len(fed[rois[i].id]) >= 3 /\ CountTrue(fed[rois[i].id]) >= 2)

\* [T, F, T] confirmed on the third pass
SmoothingWitness ==
    /\ AfterPass /\ ~RainActive(frame, config)
    /\ \E i \in 1..Len(rois) :
          /\ rois[i].id \in DOMAIN fed
          /\ fed[rois[i].id] = <<TRUE, FALSE, TRUE>>
          /\ rois[i].motion_detected

\* C3 -- Capacity: the store never holds more than max_rois ROIs, and an
\* add_roi made at capacity returns False and leaves the ROI list and the
\* motion history as they were.
CapacityInvariant ==
    /\ [](Len(rois) <= config.max_rois)
    /\ [][(last'.op = "add" /\ Len(rois) >= config.max_rois)
             => (~last'.ret /\ rois' = rois /\ motion_history' = motion_history)]_vars

\* an add rejected at capacity
CapacityWitness ==
    /\ last = [op |-> "add", ret |-> FALSE]
    /\ Len(rois) = config.max_rois

\* C5 -- Id assignment: a successful add_roi appends one ROI whose id is one
\* more than the largest id in the store before the call (1 when it was empty).
IdAssignment ==
    [][(last'.op = "add" /\ last'.ret)
          => /\ Len(rois') = Len(rois) + 1
             /\ SubSeq(rois', 1, Len(rois)) = rois
             /\ LET n == rois'[Len(rois')].id IN
                   /\ \A j \in 1..Len(rois) : rois[j].id < n
                   /\ IF rois = <<>> THEN n = 1
                      ELSE \E j \in 1..Len(rois) : rois[j].id = n - 1]_vars

\* add (1), add (2), delete 1, add: the new id is 3
IdAssignmentWitness ==
    /\ last = [op |-> "add", ret |-> TRUE]
    /\ RoiIds(rois) = <<2, 3>>

\* C6 -- Ids in the store are integers >= 1 and pairwise different.
UniquePositiveIds ==
    /\ \A i \in 1..Len(rois) : rois[i].id \in Int /\ rois[i].id >= 1
    /\ \A i, j \in 1..Len(rois) : i # j => rois[i].id # rois[j].id

\* a list with a freed lower id, saved and loaded back
UniqueIdsWitness ==
    /\ last = [op |-> "load", ret |-> TRUE]
    /\ RoiIds(rois) = <<2, 3>>

\* C4 -- Mutual exclusion: while a process_frame pass is running, no request
\* changes the ids or coords in the ROI list.
PassExcludesRequests == [][InPass => StoreView(rois') = StoreView(rois)]_vars

\* C7 -- The store holds at most max_rois ROIs, also after load_rois.
LoadWithinCapacity == Len(rois) <= config.max_rois

\* C8 -- The active-ROI count a pass returns is the number of ROIs whose
\* motion_detected is set after that pass.
ActiveCountIsCurrent == AfterPass => result.active_rois = ActiveCount(rois)

\* C9 -- The rain_active a pass over a non-empty store returns is the rain
\* classification of the frame of that pass.
RainReportIsCurrent ==
    (AfterPass /\ rois # <<>>) => (result.rain_active <=> RainActive(frame, config))

\* C10 -- A pass over an empty store returns no motion, rain inactive and zero
\* active ROIs, and leaves the background model and the motion history alone.
EmptyStorePass ==
    [][(last'.op = "process" /\ rois = <<>>)
          => /\ result' = [motion_detected |-> FALSE, rain_active |-> FALSE,
                           active_rois |-> 0]
             /\ bg_nframes' = bg_nframes
             /\ motion_history' = motion_history]_vars

\* C11 -- The motion_detected a pass returns is true exactly when some ROI in
\* the store has motion_detected set after that pass.
ReturnedMotionIsOr ==
    AfterPass => (result.motion_detected <=> \E i \in 1..Len(rois) : rois[i].motion_detected)

\* a pass that returns motion with one ROI confirmed and a later one not
ReturnedMotionWitness ==
    /\ AfterPass /\ result.motion_detected
    /\ \E i, j \in 1..Len(rois) :
          i < j /\ rois[i].motion_detected /\ ~rois[j].motion_detected

\* C12 -- delete_roi(id) returns True exactly when an ROI with that id was in
\* the store.  After a True return no ROI and no history entry with the id
\* remains, and every other ROI (order, fields) and history entry is as it was;
\* after a False return the list and the history map are unchanged.
DeleteRoiEffect ==
    [][\A id \in 1..MaxId : DeleteRoi(id) =>
          LET present == \E i \in 1..Len(rois) : rois[i].id = id IN
          /\ last'.ret = present
          /\ present =>
               /\ \A i \in 1..Len(rois') : rois'[i].id # id
               /\ id \notin DOMAIN motion_history'
               /\ rois' = SelectSeq(rois, LAMBDA r : r.id # id)
               /\ DOMAIN motion_history' = DOMAIN motion_history \ {id}
               /\ \A k \in DOMAIN motion_history' : motion_history'[k] = motion_history[k]
          /\ ~present => rois' = rois /\ motion_history' = motion_history]_vars

\* the first of two ROIs was deleted after frames had been scored: the ROI
\* left keeps its history and its flag
DeleteRoiWitness ==
    /\ last = [op |-> "delete", ret |-> TRUE]
    /\ RoiIds(rois) = <<2>>
    /\ DOMAIN motion_history = {2}
    /\ Len(motion_history[2]) = config.motion_smoothing_frames
    /\ rois[1].motion_detected

\* C13 -- The motion history of an ROI is a size-bounded FIFO queue: it never
\* holds more than motion_smoothing_frames entries and it is exactly the most
\* recent raw decisions of the passes that scored the ROI since the history
\* was created, oldest first.
HistoryIsFifo ==
    \A id \in DOMAIN motion_history :
        /\ Len(motion_history[id]) <= config.motion_smoothing_frames
        /\ id \in DOMAIN fed
        /\ motion_history[id] = fed[id]

\* a full window whose oldest entry differs from its newest, next to a
\* younger ROI whose window is not full yet
HistoryWitness ==
    /\ AfterPass
    /\ \E i, j \in 1..Len(rois) :
          LET w == motion_history[rois[i].id]
              v == motion_history[rois[j].id]
          IN  /\ Len(w) = config.motion_smoothing_frames
              /\ w[1] /\ ~w[Len(w)]
              /\ Len(v) = 2

\* C14 -- Whatever the window size N >= 1, an ROI's motion is confirmed on a
\* frame exactly when its window holds N entries and more than half of them
\* are true: count >= (N \div 2) + 1.  Read on passes without rain, where the
\* ROI's flag is the confirmed motion.
GeneralMajority ==
    (AfterPass /\ ~RainActive(frame, config)) =>
        \A i \in 1..Len(rois) :
            LET w == motion_history[rois[i].id]
                N == config.motion_smoothing_frames
            IN  rois[i].motion_detected <=>
                    (Len(w) = N /\ CountTrue(w) >= (N \div 2) + 1)

\* C15 -- However a camera pass interleaves with add, delete and clear requests
\* of the control thread, the pass never raises: the append into the ROI's
\* history always finds the entry.
PassNeverRaises == pc # "raised"

\* C16 -- process_frame given a malformed frame while at least one ROI is
\* configured does not raise: it returns a result whose motion_detected is
\* false.
MalformedFrameSkipped ==
    (frame \in MalformedFrames /\ rois # <<>> /\ last.op \in {"process", "process_raised"}) =>
        (last.op = "process" /\ ~result.motion_detected)

\* the part of a rectangle that lies inside the frame, on one axis
Clip(a, n) == IF a < 0 THEN 0 ELSE IF a > n THEN n ELSE a

\* contours of the foreground inside the intersection of rectangle c with
\* the frame
InFrameContours(blob, c) ==
    BlobContours(blob, Clip(c[1], FrameSize[1]), Clip(c[3], FrameSize[1]),
                       Clip(c[2], FrameSize[2]), Clip(c[4], FrameSize[2]))

\* C17 -- An ROI rectangle that does not intersect the frame, negative
\* coordinates and coordinates past the edge included, gives total_area = 0
\* and a false raw decision; a rectangle partly outside contributes only the
\* foreground of its in-frame part.
OutOfFrameIsZero ==
    AfterPass =>
        \A i \in 1..Len(rois) :
            LET c      == rois[i].coords
                w      == motion_history[rois[i].id]
                inside == TotalArea(InFrameContours(frame.blob, c), config)
            IN  /\ TotalArea(frame.crop[c], config) = inside
                /\ w[Len(w)] = RawMotion(inside, config)

\* C19 -- load_rois and save_rois always return.  load_rois returns False and
\* leaves the list in memory unchanged when the file is absent, unreadable or
\* not parseable, and returns True only with the file's list loaded; save_rois
\* returns False when the file system fails and True only with the list
\* written; neither changes anything else of the store.
PersistenceOutcome ==
    [][/\ \A ok \in BOOLEAN : LoadRois(ok) =>
             /\ last' = [op |-> "load", ret |-> file.exists /\ ok]
             /\ last'.ret => rois' = JsonLoad(file.content)
             /\ ~last'.ret => rois' = rois
             /\ motion_history' = motion_history /\ file' = file
       /\ \A ok \in BOOLEAN : SaveRois(ok) =>
             /\ last' = [op |-> "save", ret |-> ok]
             /\ last'.ret => (file'.exists /\ JsonLoad(file'.content) = rois)
             /\ rois' = rois /\ motion_history' = motion_history]_vars

\* a load that failed on a file that is there, with a different list in memory
PersistenceWitness ==
    /\ last = [op |-> "load", ret |-> FALSE]
    /\ file.exists
    /\ rois # <<>>
    /\ JsonLoad(file.content) # rois

\* C18 -- For a ROI list reached by add_roi, delete_roi and process_frame,
\* save_rois followed by load_rois on a fresh store gives a list of the same
\* length and order in which every ROI has the saved id and coords.
RoundTrip ==
    [][(last = [op |-> "save", ret |-> TRUE] /\ last'.op = "init" /\ last'.ret) =>
          StoreView(rois') = StoreView(rois)]_vars

\* a fresh detector holding two ROIs read from the file, the ids no longer
\* 1..n, rectangles different, a motion flag saved with them
RoundTripWitness ==
    /\ last = [op |-> "init", ret |-> TRUE]
    /\ RoiIds(rois) = <<2, 3>>
    /\ rois[1].coords # rois[2].coords
    /\ rois[1].motion_detected

\* C20 -- Two detectors with the same background-model state, the same motion
\* history and the same ROI set (ids and coords) return the same result
\* (motion_detected, rain_active, active count) for the same frame, whatever
\* else differs in their past, such as the rain flag or the ROI flags earlier
\* frames left.
DeterministicGivenState ==
    [][(/\ last'.op = "process"
        /\ bg_nframes = twin.bg
        /\ motion_history = twin.hist
        /\ StoreView(rois) = StoreView(twin.rois)) =>
          result' = PassOutcome(twin, frame', config, now).result]_vars

\* C21 -- Every ROI in the store is a well-formed rectangle: whatever integers
\* add_roi was called with, each stored ROI has x1 < x2 and y1 < y2.
WellFormedRects ==
    \A i \in 1..Len(rois) :
        LET c == rois[i].coords IN c[1] < c[3] /\ c[2] < c[4]

\* C22 -- clear_rois leaves the ROI list and the motion history empty, from
\* any state; the next successful add_roi after it gets id 1 and has no
\* smoothing window yet.
ClearRoisEffect ==
    [][/\ last'.op = "clear" => (rois' = <<>> /\ motion_history' = <<>>)
       /\ (last.op = "clear" /\ last'.op = "add" /\ last'.ret) =>
             (RoiIds(rois') = <<1>> /\ 1 \notin DOMAIN motion_history')]_vars

\* a clear of a store holding several ROIs, one of them with confirmed motion
\* returned by the last pass, followed by an add
ClearRoisWitness ==
    /\ last = [op |-> "add", ret |-> TRUE]
    /\ RoiIds(rois) = <<1>>
    /\ result.motion_detected
    /\ result.active_rois >= 1
    /\ motion_history = <<>>

\* C25 -- The detector's configuration is immutable during a session: once the
\* detector is constructed no operation changes motion_threshold,
\* min_contour_area, max_small_contours, motion_smoothing_frames or max_rois.
ConfigImmutable == [][config' = config]_vars

\* C26 -- Between operations, every key of the motion history is the id of an
\* ROI in the store: no history survives its ROI, also when load_rois replaces
\* the list.
HistoryKeysInStore ==
    \A id \in DOMAIN motion_history : \E i \in 1..Len(rois) : rois[i].id = id

\* C27 -- An ROI created by add_roi never has motion_detected = true before
\* motion_smoothing_frames passes have scored it since it was added, also when
\* its id was held by an earlier ROI.  Stated for the first pass after the
\* add: the ROI just appended is not flagged by it.
NewRoiNeedsFullWindow ==
    [][(last = [op |-> "add", ret |-> TRUE] /\ last'.op = "process") =>
          ~rois'[Len(rois')].motion_detected]_vars

\* C30 -- Every pass made with a non-empty ROI set appends exactly one raw
\* decision to the window of each ROI in the set, on rain-active frames too,
\* and changes no window of any other id.
WindowUpdatedOncePerPass ==
    [][(last'.op = "process" /\ rois # <<>>) =>
          /\ \A i \in 1..Len(rois) :
                LET id  == rois[i].id
                    raw == RawMotion(TotalArea(frame'.crop[rois[i].coords], config), config)
                    old == IF id \in DOMAIN motion_history THEN motion_history[id] ELSE <<>>
                    all == Append(old, raw)
                IN  /\ id \in DOMAIN motion_history'
                    /\ motion_history'[id] =
                          IF Len(all) > config.motion_smoothing_frames THEN Tail(all) ELSE all
          /\ \A k \in DOMAIN motion_history' :
                (\A i \in 1..Len(rois) : rois[i].id # k) =>
                    (k \in DOMAIN motion_history /\ motion_history'[k] = motion_history[k])]_vars

\* a rain-active pass that appended a true raw decision to the full window of
\* the only ROI, next to the window of an id no longer in the store
WindowUpdateWitness ==
    /\ AfterPass /\ RainActive(frame, config)
    /\ RoiIds(rois) = <<1>>
    /\ DOMAIN motion_history = {1, 2}
    /\ motion_history[1] = <<FALSE, FALSE, TRUE>>
    /\ motion_history[2] = <<TRUE>>

\* number of lines the call logged for an id
LinesFor(log, id) == Cardinality({ k \in 1..Len(log) : log[k] = id })

\* C24 -- The "Motion in ROI" log line is written only when an ROI goes over
\* to confirmed motion: a pass writes one line for an ROI whose flag it turns
\* from false to true, and none for an ROI whose flag was true already or is
\* false after the pass.
LogOnTransitionOnly ==
    [][last'.op = "process" =>
          \A i \in 1..Len(rois') :
              LinesFor(motion_log', rois'[i].id) =
                  IF rois'[i].motion_detected /\ ~rois[i].motion_detected THEN 1 ELSE 0]_vars

\* no request is being served
Quiet == \A t \in Handlers : web.thr[t].pc = "idle"

\* C23 -- Whenever no add, delete or clear request is in flight and no
\* save_rois call has failed, the ROI file lists the ids and coords of the
\* ROI list in memory, in the same order (no file at all while the store has
\* never been edited), whatever the interleaving of the handler threads.
FileMatchesStore ==
    (Quiet /\ ~web.save_failed)
        => IF file.exists
           THEN web.disk = "json" /\ StoreView(JsonLoad(file.content)) = StoreView(rois)
           ELSE rois = <<>>

\* C28 -- Whatever the interleaving of add_roi calls in different handler
\* threads, the store holds at most max_rois ROIs and no two ROIs share an
\* id.
ConcurrentAddsSafe ==
    /\ Len(rois) <= config.max_rois
    /\ \A i, j \in 1..Len(rois) : i # j => rois[i].id # rois[j].id

\* C29 -- Whatever the sequence and interleaving of start_camera and
\* stop_camera requests, at most one _camera_loop thread is inside its while
\* loop, and no loop leaves it because of the camera_active = False written by
\* another loop thread: a loop ends on stop_camera or on a failed read only.
SingleCameraLoop ==
    /\ Cardinality({ k \in Loops : web.loops[k].pc = "run" }) <= 1
    /\ \A k \in Loops : web.loops[k].why # "other"

Newest(g) == g[Len(g)]

\* the raw decision of the ROI's latest pass was true and that of the pass before it false
FlickerAfterQuiet(g) == Len(g) >= 2 /\ Newest(g) /\ ~g[Len(g) - 1]

\* the raw decision of the ROI's latest pass was true and no other entry of the window is
LoneTrue(g) == g # <<>> /\ Newest(g) /\ CountTrue(g) = 1

\* the raw decision of the pass before the ROI's latest was the only true one of the window
LoneTrueBefore(g) == Len(g) >= 2 /\ g[Len(g) - 1] /\ CountTrue(g) = 1

\* C32 as stated -- An ROI whose raw decision was true on one pass, false on
\* the pass before it and false on the passes after it has motion_detected
\* false on that pass and on the next: read on the pass that follows the true
\* one (a further raw-negative pass can always follow).
SingleFlickerSuppressed ==
    [][last'.op = "process" =>
          \A i \in 1..Len(rois) :
              LET id == rois[i].id IN
              (id \in DOMAIN fed /\ FlickerAfterQuiet(fed[id]) /\ ~Newest(fed'[id]))
                  => (~rois[i].motion_detected /\ ~rois'[i].motion_detected)]_vars

\* C32 -- An ROI whose raw decision was true on one pass, false on every
\* older entry of its history window (the two passes before, where the window
\* holds that many) and false on the two passes after it has motion_detected
\* false on that pass and on the two passes after it.
LoneFlickerSuppressed ==
    [][last'.op = "process" =>
          \A i \in 1..Len(rois) :
              LET id == rois[i].id IN
              id \in DOMAIN fed =>
                 /\ (LoneTrue(fed[id]) /\ ~Newest(fed'[id]))
                       => (~rois[i].motion_detected /\ ~rois'[i].motion_detected)
                 /\ (LoneTrueBefore(fed[id]) /\ ~Newest(fed'[id]))
                       => ~rois'[i].motion_detected]_vars

LoneFlickerWitness ==
    /\ AfterPass
    /\ ~rain_detection_active
    /\ Len(rois) = 1
    /\ rois[1].id \in DOMAIN fed
    /\ fed[rois[1].id] = <<TRUE, FALSE, FALSE>>
    /\ ~rois[1].motion_detected

\* C33 -- With N = 3, an ROI that stayed in the store and whose raw decision
\* was true on its last three passes or more has motion_detected true after a
\* pass without rain; an ROI whose raw decision was false on its last two
\* passes has motion_detected false.
SustainedMotion ==
    AfterPass =>
        \A i \in 1..Len(rois) :
            LET id == rois[i].id IN
            id \in DOMAIN fed =>
               /\ (fed[id] = <<TRUE, TRUE, TRUE>> /\ ~rain_detection_active)
                     => rois[i].motion_detected
               /\ (Len(fed[id]) >= 2 /\ ~Newest(fed[id]) /\ ~fed[id][Len(fed[id]) - 1])
                     => ~rois[i].motion_detected

SustainedMotionWitness ==
    /\ AfterPass
    /\ ~rain_detection_active
    /\ Len(rois) = 1
    /\ rois[1].id \in DOMAIN fed
    /\ fed[rois[1].id] = <<TRUE, TRUE, TRUE>>
    /\ rois[1].motion_detected
    /\ config.motion_smoothing_frames = 3

\* C34 -- After a pass over a non-empty store the frame is rain-active
\* exactly when the contours of the whole mask with area strictly below
\* min_contour_area number strictly more than max_small_contours: a contour
\* of exactly min_contour_area is not counted, a count of exactly
\* max_small_contours is not rain.
RainBoundary ==
    (AfterPass /\ rois # <<>> /\ "mask" \in DOMAIN frame)
        => (rain_detection_active <=>
               Cardinality({ i \in 1..Len(frame.mask) : frame.mask[i] < config.min_contour_area })
                   > config.max_small_contours)

\* exactly max_small_contours contours below the area limit and one at it: no rain
RainBoundaryWitness ==
    /\ AfterPass
    /\ rois # <<>>
    /\ config = DetectorConfig
    /\ "mask" \in DOMAIN frame
    /\ frame.mask = MaskOf(DetectorConfig.max_small_contours, 1, 0)
    /\ ~rain_detection_active

\* the areas of a contour list with those below the limit replaced by 0
CountedAreas(cs, limit) == [i \in 1..Len(cs) |-> IF cs[i] >= limit THEN cs[i] ELSE 0]

\* C35 -- The raw decision a pass appends for an ROI is true exactly when
\* the areas of the crop's contours of at least min_contour_area add up to
\* strictly more than motion_threshold: smaller contours add nothing, however
\* many, and a sum equal to motion_threshold is not motion.
RawMotionBoundary ==
    (AfterPass /\ rois # <<>>)
        => \A i \in 1..Len(rois) :
               Newest(motion_history[rois[i].id]) <=>
                   SumSeq(CountedAreas(frame.crop[rois[i].coords], config.min_contour_area))
                       > config.motion_threshold

\* two contours at the area limit and one below it against a threshold of
\* exactly twice the limit: no motion
RawMotionWitness ==
    /\ AfterPass
    /\ Len(rois) = 1
    /\ config.motion_threshold = 2 * config.min_contour_area
    /\ frame.crop[rois[1].coords] =
           <<config.min_contour_area, config.min_contour_area - 1, config.min_contour_area>>
    /\ ~Newest(motion_history[rois[1].id])

\* C36 -- Whatever start() and stop() calls have been made and have
\* returned, at most one keep-awake loop thread is alive: a start() while
\* active starts none, and a start() after a stop() that returned does not
\* run beside the loop of the start() before.
OneKeepAwakeLoop ==
    sleep_prevention.caller = "idle" => Cardinality(AliveLoops) <= 1

\* C37 -- Of the notify_motion_detected calls of a process_frame call, one
\* returns True only when more than notification_cooldown has passed since
\* the last call that returned True, whatever the ROI; such a call adds one
\* to detection_count and stores its time, and a call within the cooldown
\* returns False and changes neither.
NotifyRateLimit ==
    [][last'.op = "legacy_process" =>
          LET calls == person'.notified
              due   == TimeTime - person.last_notification_time > NotificationCooldown
          IN  /\ \A k \in 1..Len(calls) : calls[k] <=> (k = 1 /\ due)
              /\ person'.detection_count = person.detection_count + CountTrue(calls)
              /\ person'.last_notification_time =
                     IF CountTrue(calls) > 0 THEN TimeTime ELSE person.last_notification_time]_vars

\* the second notification of a run, given for the first of two moving ROIs
NotifyRateWitness ==
    /\ last.op = "legacy_process"
    /\ person.detection_count = 2
    /\ person.notified = <<TRUE, FALSE>>

\* C38 -- In PersonDetector.process_frame the notify and log step of an ROI
\* is skipped on a motion frame when the ROI's last_notification is less than
\* 2 seconds old.
PerRoiThrottle ==
    [][last'.op = "legacy_process" =>
          \A i \in 1..Len(person.rois) :
              (/\ person.rois[i].last_notification # <<>>
               /\ TimeTime - person.rois[i].last_notification[1] < RoiThrottle)
                  => i \notin Range(person'.logged)]_vars

=============================================================================
